---- MODULE Spec2Model ----
(***************************************************************************)
(* prune.py: prune date-named backup directories with a GFS retention      *)
(* policy.  The model covers main (argument validation, scan, choose_kept, *)
(* the report/delete loop) and the pure functions scan_directories,        *)
(* prune_split and choose_kept.                                            *)
(***************************************************************************)
EXTENDS Integers, Sequences, FiniteSets, TLC

\* Largest number of entries base.iterdir() yields in a run.
MaxDirs == 3
\* Largest keep-count given on the command line (the smallest is -1:
\* argparse's type=int accepts negative numbers).
MaxKeep == 2

(***************************************************************************)
(* Calendar: datetime.date as the code uses it (fromisoformat, ordering,   *)
(* strftime with the four PRUNING_PATTERNS).                               *)
(***************************************************************************)
Date(y, m, d) == [y |-> y, m |-> m, d |-> d]

IsLeap(y) == (y % 4 = 0) /\ ((y % 100 # 0) \/ (y % 400 = 0))

DaysInMonth(y, m) ==
    IF m = 2 THEN (IF IsLeap(y) THEN 29 ELSE 28)
    ELSE IF m \in {4, 6, 9, 11} THEN 30 ELSE 31

\* A calendar date exists (fromisoformat raises ValueError otherwise).
ValidDate(y, m, d) == m \in 1..12 /\ d >= 1 /\ d <= DaysInMonth(y, m)

DaysBeforeYear(y) ==
    (y - 1) * 365 + ((y - 1) \div 4) - ((y - 1) \div 100) + ((y - 1) \div 400)

RECURSIVE DaysBeforeMonth(_, _)
DaysBeforeMonth(y, m) ==
    IF m = 1 THEN 0 ELSE DaysBeforeMonth(y, m - 1) + DaysInMonth(y, m - 1)

\* date.toordinal()
Ymd2Ord(y, m, d) == DaysBeforeYear(y) + DaysBeforeMonth(y, m) + d

\* Ordinal of the Monday that starts ISO week 1 of a year.
IsoWeek1Monday(year) ==
    LET firstday     == Ymd2Ord(year, 1, 1)
        firstweekday == (firstday + 6) % 7
        week1monday  == firstday - firstweekday
    IN  IF firstweekday > 3 THEN week1monday + 7 ELSE week1monday

\* date.isocalendar(): <<ISO year (%G), ISO week (%V)>>
IsoCalendar(ts) ==
    LET today == Ymd2Ord(ts.y, ts.m, ts.d)
        week  == (today - IsoWeek1Monday(ts.y)) \div 7
    IN  IF week < 0
        THEN <<ts.y - 1, ((today - IsoWeek1Monday(ts.y - 1)) \div 7) + 1>>
        ELSE IF week >= 52 /\ today >= IsoWeek1Monday(ts.y + 1)
             THEN <<ts.y + 1, 1>>
             ELSE <<ts.y, week + 1>>

\* The fixed order of the rules (the OrderedDict's key order).
Rules == <<"daily", "weekly", "monthly", "yearly">>

\* Variant: the week keyed by the calendar year, "%Y-%V".
PatternsCalendarYearWeek ==
    [rule \in {"daily", "weekly", "monthly", "yearly"} |->
        CASE rule = "daily"   -> "%Y-%m-%d"
          [] rule = "weekly"  -> "%Y-%V"
          [] rule = "monthly" -> "%Y-%m"
          [] rule = "yearly"  -> "%Y"]

\* PRUNING_PATTERNS: rule -> strftime format
PRUNING_PATTERNS ==
    [rule \in {"daily", "weekly", "monthly", "yearly"} |->
        CASE rule = "daily"   -> "%Y-%m-%d"
          [] rule = "weekly"  -> "%G-%V"
          [] rule = "monthly" -> "%Y-%m"
          [] rule = "yearly"  -> "%Y"]

\* ts.strftime(pattern): the zero-padded fields of the period string, as a
\* tuple of numbers (two period strings are equal iff their fields are).
Strftime(ts, pattern) ==
    CASE pattern = "%Y-%m-%d" -> <<ts.y, ts.m, ts.d>>
      [] pattern = "%G-%V"    -> IsoCalendar(ts)
      [] pattern = "%Y-%V"    -> <<ts.y, IsoCalendar(ts)[2]>>
      [] pattern = "%Y-%m"    -> <<ts.y, ts.m>>
      [] pattern = "%Y"       -> <<ts.y>>

\* last_period = None
None == <<>>

DateLess(a, b) ==
    \/ a.y < b.y
    \/ a.y = b.y /\ a.m < b.m
    \/ a.y = b.y /\ a.m = b.m /\ a.d < b.d

(***************************************************************************)
(* The base directory.  An entry name is "YYYY-MM-DD" (fmt "ext")          *)
(* or "YYYYMMDD" (fmt "basic", which date.fromisoformat also parses since  *)
(* Python 3.11); the digits need not name a calendar date.  is_dir tells   *)
(* a directory from a plain file.                                          *)
(***************************************************************************)
Entry(fmt, y, m, d, is_dir) ==
    [name |-> [fmt |-> fmt, y |-> y, m |-> m, d |-> d], is_dir |-> is_dir]

Universe ==
    { Entry("ext",   2025,  1,  6, TRUE),     \* Mon, ISO 2025-W02
      Entry("ext",   2025,  1,  1, TRUE),     \* Wed, ISO 2025-W01
      Entry("ext",   2024, 12, 31, TRUE),     \* Tue, ISO 2025-W01
      Entry("basic", 2024, 12, 31, TRUE),     \* the same day, named 20241231
      Entry("ext",   2024, 12, 29, TRUE),     \* Sun, ISO 2024-W52
      Entry("ext",   2024, 11, 30, TRUE),     \* Sat, ISO 2024-W48
      Entry("ext",   2025,  2, 30, TRUE),     \* no such calendar date
      Entry("ext",   2024, 12, 30, FALSE) }   \* a plain file, not a directory

Listings == { s \in SUBSET Universe : Cardinality(s) <= MaxDirs }

KeepCounts == (-1)..MaxKeep

\* datetime.date.fromisoformat(entry.name) returns (no ValueError).
ParsesAsDate(name) ==
    name.fmt \in {"ext", "basic"} /\ ValidDate(name.y, name.m, name.d)

\* datetime.date.fromisoformat(entry.name), where it returns.
FromIsoFormat(name) == Date(name.y, name.m, name.d)

\* Path / str order of two names in the same directory: the first four
\* characters are the year; then "-" sorts before every digit.
PathLess(a, b) ==
    \/ a.y < b.y
    \/ a.y = b.y /\ a.fmt = "ext" /\ b.fmt = "basic"
    \/ a.y = b.y /\ a.fmt = b.fmt /\ (a.m < b.m \/ (a.m = b.m /\ a.d < b.d))

\* Tuple order of two items (ts, path, name).
ItemLess(a, b) ==
    DateLess(a.ts, b.ts) \/ (a.ts = b.ts /\ PathLess(a.name, b.name))

\* Variant: items.sort() without reverse.
SortsAscending(a, b) == ItemLess(a, b)

\* items.sort(reverse=True): a comes before b.
SortsBefore(a, b) == ItemLess(b, a)

RECURSIVE SortItems(_)
SortItems(s) ==
    IF s = {} THEN <<>>
    ELSE LET first == CHOOSE a \in s : \A b \in s \ {a} : SortsBefore(a, b)
         IN  <<first>> \o SortItems(s \ {first})

\* scan_directories(base)
ScanDirectories(base) ==
    SortItems({ [ts |-> FromIsoFormat(e.name), name |-> e.name] :
                  e \in { x \in base : x.is_dir /\ ParsesAsDate(x.name) } })

(***************************************************************************)
(* prune_split                                                             *)
(***************************************************************************)
\* Variant: only a negative count switches the rule off.
RuleOffNegativeOnly(n) == n < 0

\* line 61: the rule is switched off
RuleOff(n) == n <= 0

\* Variant: the walk does not look at kept.
NeverAlreadyKept(name, kept) == FALSE

\* line 70: the entry was kept before (by this walk or an earlier rule)
AlreadyKept(name, kept) == name \in kept

\* Variant: an entry kept before does not register its period.
RegisteredUnlessKept(period, last_period, name, kept) ==
    IF name \in kept THEN last_period ELSE period

\* line 69: last_period after an entry that starts a new period
Registered(period, last_period, name, kept) == period

\* Variant: the walk stops one keep late.
QuotaReachedLate(counter, n) == counter = n + 1

\* line 74: the quota is used up
QuotaReached(counter, n) == counter = n

\* Variant: the ordinal is recorded before the counter is incremented.
RecordZeroBased(because, name, rule, counter) ==
    [x \in (DOMAIN because) \cup {name} |->
        IF x = name THEN <<rule, counter - 1>> ELSE because[x]]

\* kept_because[name] = (rule, counter)
Record(because, name, rule, counter) ==
    [x \in (DOMAIN because) \cup {name} |->
        IF x = name THEN <<rule, counter>> ELSE because[x]]

RECURSIVE Walk(_, _, _, _, _, _, _, _)
Walk(items, rule, n, i, last_period, counter, kept, because) ==
    IF i > Len(items) THEN [kept |-> kept, because |-> because]
    ELSE LET ts     == items[i].ts
             name   == items[i].name
             period == Strftime(ts, PRUNING_PATTERNS[rule])
         IN  IF period # last_period
             THEN IF ~AlreadyKept(name, kept)
                  THEN IF QuotaReached(counter + 1, n)
                       THEN [kept    |-> kept \cup {name},
                             because |-> Record(because, name, rule, counter + 1)]
                       ELSE Walk(items, rule, n, i + 1,
                                 Registered(period, last_period, name, kept), counter + 1,
                                 kept \cup {name},
                                 Record(because, name, rule, counter + 1))
                  ELSE Walk(items, rule, n, i + 1,
                            Registered(period, last_period, name, kept), counter,
                            kept, because)
             ELSE Walk(items, rule, n, i + 1, last_period, counter, kept, because)

PruneSplit(items, rule, n, kept, because) ==
    IF RuleOff(n) THEN [kept |-> kept, because |-> because]
    ELSE Walk(items, rule, n, 1, None, 0, kept, because)

\* The state of choose_kept after the first r rules.
RECURSIVE ChooseUpTo(_, _, _)
ChooseUpTo(items, args, r) ==
    IF r = 0 THEN [kept |-> {}, because |-> <<>>]
    ELSE LET before == ChooseUpTo(items, args, r - 1)
         IN  PruneSplit(items, Rules[r], args[Rules[r]],
                        before.kept, before.because)

\* choose_kept(items, args)
ChooseKept(items, args) == ChooseUpTo(items, args, Len(Rules))

\* dir_size(path): the bytes stored under a directory.  What the directories
\* hold is input; the model gives each a fixed size.
DirSize(name) == name.m * 1024 + name.d

(***************************************************************************)
(* main                                                                    *)
(***************************************************************************)
VARIABLES
    pc,           \* where main is
    args,         \* the parsed command line
    fs,           \* the entries of the base directory
    dirs,         \* main's dirs
    kept,         \* choose_kept's kept
    because,      \* choose_kept's because
    rule,         \* position of choose_kept's loop over PRUNING_PATTERNS
    idx,          \* position of the report loop in dirs
    stdout,       \* the lines printed
    total_bytes,
    removed       \* the names shutil.rmtree was called on

vars == <<pc, args, fs, dirs, kept, because, rule, idx, stdout, total_bytes, removed>>

Args ==
    [daily : KeepCounts, weekly : KeepCounts, monthly : KeepCounts,
     yearly : KeepCounts, dry_run : BOOLEAN]

Init ==
    /\ pc = "start"
    /\ args \in Args
    /\ fs \in Listings
    /\ dirs = <<>>
    /\ kept = {}
    /\ because = <<>>
    /\ rule = 1
    /\ idx = 1
    /\ stdout = <<>>
    /\ total_bytes = 0
    /\ removed = {}

\* any((args.daily, args.weekly, args.monthly, args.yearly)): truthiness of ints
AnyRule(a) == a.daily # 0 \/ a.weekly # 0 \/ a.monthly # 0 \/ a.yearly # 0

\* lines 114-116: p.error prints the usage message and exits with status 2
ParseArgs ==
    /\ pc = "start"
    /\ pc' = IF ~AnyRule(args) THEN "usage_error" ELSE "scan"
    /\ UNCHANGED <<args, fs, dirs, kept, because, rule, idx, stdout, total_bytes, removed>>

\* line 118
Scan ==
    /\ pc = "scan"
    /\ dirs' = ScanDirectories(fs)
    /\ pc' = "choose"
    /\ UNCHANGED <<args, fs, kept, because, rule, idx, stdout, total_bytes, removed>>

\* line 119: one turn of choose_kept's loop, a whole prune_split call
PruneSplitStep ==
    /\ pc = "choose"
    /\ LET r == PruneSplit(dirs, Rules[rule], args[Rules[rule]], kept, because)
       IN  /\ kept' = r.kept
           /\ because' = r.because
    /\ rule' = rule + 1
    /\ pc' = IF rule = Len(Rules) THEN "report" ELSE "choose"
    /\ UNCHANGED <<args, fs, dirs, idx, stdout, total_bytes, removed>>

\* line 124
InKept(name, k) == name \in k

\* Variant: the dry-run flag is not consulted.
DeletesAlways(dry_run) == TRUE

\* line 132
DeletesAfterPrune(dry_run) == ~dry_run

\* lines 124-126
ReportKeep ==
    /\ pc = "report"
    /\ idx <= Len(dirs)
    /\ InKept(dirs[idx].name, kept)
    /\ stdout' = Append(stdout, [op |-> "KEEP", name |-> dirs[idx].name,
                                 rule |-> because[dirs[idx].name][1],
                                 num |-> because[dirs[idx].name][2],
                                 dry |-> args.dry_run])
    /\ idx' = idx + 1
    /\ UNCHANGED <<pc, args, fs, dirs, kept, because, rule, total_bytes, removed>>

\* lines 127-132
ReportPrune ==
    /\ pc = "report"
    /\ idx <= Len(dirs)
    /\ ~InKept(dirs[idx].name, kept)
    /\ total_bytes' = total_bytes + DirSize(dirs[idx].name)
    /\ stdout' = Append(stdout, [op |-> "PRUNE", name |-> dirs[idx].name,
                                 size |-> DirSize(dirs[idx].name),
                                 dry |-> args.dry_run])
    /\ IF DeletesAfterPrune(args.dry_run)
       THEN pc' = "rmtree" /\ idx' = idx
       ELSE pc' = "report" /\ idx' = idx + 1
    /\ UNCHANGED <<args, fs, dirs, kept, because, rule, removed>>

\* Variant: rmtree is called on args.base instead of path.
RmtreeBase ==
    /\ pc = "rmtree"
    /\ fs' = {}
    /\ removed' = removed \cup {dirs[idx].name}
    /\ idx' = idx + 1
    /\ pc' = "report"
    /\ UNCHANGED <<args, dirs, kept, because, rule, stdout, total_bytes>>

\* line 133
Rmtree ==
    /\ pc = "rmtree"
    /\ fs' = { e \in fs : e.name # dirs[idx].name }
    /\ removed' = removed \cup {dirs[idx].name}
    /\ idx' = idx + 1
    /\ pc' = "report"
    /\ UNCHANGED <<args, dirs, kept, because, rule, stdout, total_bytes>>

\* line 135
Trailer ==
    /\ pc = "report"
    /\ idx > Len(dirs)
    /\ stdout' = Append(stdout, [op |-> "Removed",
                                 count |-> Len(dirs) - Cardinality(kept),
                                 total |-> total_bytes,
                                 dry |-> args.dry_run])
    /\ pc' = "done"
    /\ UNCHANGED <<args, fs, dirs, kept, because, rule, idx, total_bytes, removed>>

Next ==
    \/ ParseArgs
    \/ Scan
    \/ PruneSplitStep
    \/ ReportKeep
    \/ ReportPrune
    \/ Rmtree
    \/ Trailer

Spec == Init /\ [][Next]_vars

(***************************************************************************)
(* choose_kept on its own: the catalog is any list scan_directories can    *)
(* return and the keep-counts are any the command line can give; the       *)
(* steps are the four prune_split calls.                                   *)
(***************************************************************************)
EngineInit ==
    /\ pc = "choose"
    /\ args \in { a \in Args : ~a.dry_run }
    /\ fs \in Listings
    /\ dirs = ScanDirectories(fs)
    /\ kept = {}
    /\ because = <<>>
    /\ rule = 1
    /\ idx = 1
    /\ stdout = <<>>
    /\ total_bytes = 0
    /\ removed = {}

EngineNext == PruneSplitStep

EngineSpec == EngineInit /\ [][EngineNext]_vars

(***************************************************************************)
(* Vocabulary of the properties                                            *)
(***************************************************************************)
RuleNames == {"daily", "weekly", "monthly", "yearly"}

NonNegative(a) == \A r \in RuleNames : a[r] >= 0

AnyNegative(a) == \E r \in RuleNames : a[r] < 0

AnyPositive(a) == \E r \in RuleNames : a[r] > 0

\* choose_kept has run all four rules
Chosen == rule > Len(Rules)

RuleIndex(r) == CHOOSE k \in 1..Len(Rules) : Rules[k] = r

\* The period of a date under a rule, from the calendar (not from the
\* pattern table): day, ISO week, month, year.
PeriodOf(r, ts) ==
    CASE r = "daily"   -> <<ts.y, ts.m, ts.d>>
      [] r = "weekly"  -> IsoCalendar(ts)
      [] r = "monthly" -> <<ts.y, ts.m>>
      [] r = "yearly"  -> <<ts.y>>

\* Positions of dirs whose entry is kept under rule r
KeptUnder(r) ==
    { i \in 1..Len(dirs) :
        dirs[i].name \in DOMAIN because /\ because[dirs[i].name][1] = r }

\* Position i holds the first entry of its r-period in dirs
Leader(r, i) ==
    \A j \in 1..(i - 1) : PeriodOf(r, dirs[j].ts) # PeriodOf(r, dirs[i].ts)

\* Position i was kept by a rule that runs before rule number k
KeptEarlier(i, k) ==
    dirs[i].name \in DOMAIN because /\ RuleIndex(because[dirs[i].name][1]) < k

NamesOf(items) == { items[i].name : i \in 1..Len(items) }

Min(a, b) == IF a < b THEN a ELSE b

(***************************************************************************)
(* C1 (as claimed): with a negative keep-count, or with no positive one,   *)
(* main stops at the usage error: nothing is scanned, chosen or deleted.   *)
(***************************************************************************)
C1_InvalidConfigRejected ==
    (AnyNegative(args) \/ ~AnyPositive(args)) =>
        /\ pc \in {"start", "usage_error"}
        /\ dirs = <<>>
        /\ removed = {}

(***************************************************************************)
(* C2: a directory is removed only if its name is not in kept, the run is  *)
(* not a dry run and its PRUNE line is already on stdout; the same holds   *)
(* when rmtree is about to be called.                                      *)
(***************************************************************************)
PrunePrinted(name) ==
    \E k \in 1..Len(stdout) : stdout[k].op = "PRUNE" /\ stdout[k].name = name

C2_DeleteOnlyReportedPruned ==
    /\ \A name \in removed :
          name \notin kept /\ ~args.dry_run /\ PrunePrinted(name)
    /\ pc = "rmtree" =>
          /\ dirs[idx].name \notin kept
          /\ ~args.dry_run
          /\ PrunePrinted(dirs[idx].name)
    /\ args.dry_run => removed = {}

C2_Witness ==
    /\ pc = "done"
    /\ removed # {}
    /\ kept # {}

(***************************************************************************)
(* C3: with non-negative keep-counts, at most daily + weekly + monthly +   *)
(* yearly entries are kept, and at most args[r] under each rule r.         *)
(***************************************************************************)
C3_KeptWithinQuota ==
    NonNegative(args) =>
        /\ Cardinality(kept) <= args.daily + args.weekly + args.monthly + args.yearly
        /\ \A r \in RuleNames : Cardinality(KeptUnder(r)) <= args[r]

C3_Witness ==
    /\ Chosen
    /\ NonNegative(args)
    /\ Cardinality(kept) >= 2
    /\ Cardinality(kept) < Len(dirs)
    /\ Cardinality(kept) = args.daily + args.weekly + args.monthly + args.yearly

(***************************************************************************)
(* C4: first rule wins.  A name in kept keeps its (rule, ordinal) for the  *)
(* rest of the run and stays in kept; every kept name has exactly one      *)
(* recorded rule.                                                          *)
(***************************************************************************)
C4_FirstRuleWins ==
    [][ /\ DOMAIN because = kept
        /\ \A name \in kept :
              name \in kept' /\ because'[name] = because[name] ]_vars

\* weekly has run after daily kept the first entry of the newest week
C4_Witness ==
    /\ rule > 2
    /\ args.daily > 0
    /\ args.weekly > 0
    /\ Len(dirs) >= 2
    /\ 1 \in KeptUnder("daily")
    /\ KeptUnder("weekly") # {}

(***************************************************************************)
(* C5: an entry kept under weekly, monthly or yearly is the latest entry   *)
(* of its ISO week, month or year in dirs, and each of these rules keeps   *)
(* at most one entry per period.                                           *)
(***************************************************************************)
C5_RecencyWithinPeriod ==
    \A r \in {"weekly", "monthly", "yearly"} :
        \A i \in KeptUnder(r) :
            /\ \A j \in 1..Len(dirs) :
                  PeriodOf(r, dirs[j].ts) = PeriodOf(r, dirs[i].ts)
                      => ~DateLess(dirs[i].ts, dirs[j].ts)
            /\ \A j \in KeptUnder(r) :
                  j # i => PeriodOf(r, dirs[j].ts) # PeriodOf(r, dirs[i].ts)

\* weekly kept an entry whose ISO week holds an older entry too
C5_Witness ==
    /\ Chosen
    /\ \E i \in KeptUnder("weekly") : \E j \in 1..Len(dirs) :
          /\ PeriodOf("weekly", dirs[j].ts) = PeriodOf("weekly", dirs[i].ts)
          /\ DateLess(dirs[j].ts, dirs[i].ts)

(***************************************************************************)
(* C6: monotonicity.  With non-negative keep-counts, raising one count by  *)
(* one keeps every entry that is kept now.                                 *)
(***************************************************************************)
Raised(a, r) == [a EXCEPT ![r] = @ + 1]

C6_Monotone ==
    (Chosen /\ NonNegative(args)) =>
        \A r \in RuleNames : kept \subseteq ChooseKept(dirs, Raised(args, r)).kept

\* raising a count from 0 adds an entry and changes who keeps another
C6_Witness ==
    /\ Chosen
    /\ NonNegative(args)
    /\ kept # {}
    /\ args.daily = 0
    /\ LET more == ChooseKept(dirs, Raised(args, "daily"))
       IN  /\ kept # more.kept
           /\ \E name \in kept : more.because[name] # because[name]

(***************************************************************************)
(* C7: under a rule with a positive count the kept entries, in the order   *)
(* of dirs, carry the ordinals 1, 2, ..., k with k at most the count;      *)
(* with only daily positive and all dates distinct, kept is exactly the    *)
(* first min(daily, N) entries of dirs.                                    *)
(***************************************************************************)
DistinctDates ==
    \A i, j \in 1..Len(dirs) : i # j => dirs[i].ts # dirs[j].ts

OnlyDaily ==
    args.daily > 0 /\ args.weekly = 0 /\ args.monthly = 0 /\ args.yearly = 0

C7_Ordinals ==
    /\ \A r \in RuleNames : args[r] > 0 =>
          /\ Cardinality(KeptUnder(r)) <= args[r]
          /\ \A i \in KeptUnder(r) :
                because[dirs[i].name][2] =
                    Cardinality({ j \in KeptUnder(r) : j <= i })
    /\ (Chosen /\ OnlyDaily /\ DistinctDates) =>
          /\ kept = { dirs[i].name : i \in 1..Min(args.daily, Len(dirs)) }
          /\ \A i \in 1..Min(args.daily, Len(dirs)) :
                because[dirs[i].name] = <<"daily", i>>

C7_Witness ==
    /\ Chosen
    /\ OnlyDaily
    /\ DistinctDates
    /\ args.daily >= 2
    /\ Len(dirs) > args.daily

(***************************************************************************)
(* C8: each rule walks all of dirs with its own fresh state.  When the     *)
(* first entry of a period was kept by an earlier rule, the rule keeps no  *)
(* entry of that period; it keeps the first entries of the periods whose   *)
(* first entry was not kept before, as many as its count allows.           *)
(***************************************************************************)
C8_SeenPeriodSkipped ==
    (Chosen /\ NonNegative(args)) =>
        \A k \in 2..Len(Rules) :
            LET r == Rules[k]
                free == { i \in 1..Len(dirs) : Leader(r, i) /\ ~KeptEarlier(i, k) }
            IN  /\ \A i \in 1..Len(dirs) :
                      (Leader(r, i) /\ KeptEarlier(i, k)) =>
                          \A j \in KeptUnder(r) :
                              PeriodOf(r, dirs[j].ts) # PeriodOf(r, dirs[i].ts)
                /\ KeptUnder(r) \subseteq free
                /\ Cardinality(KeptUnder(r)) = Min(args[r], Cardinality(free))
                /\ \A i \in KeptUnder(r) : \A j \in free : j < i => j \in KeptUnder(r)

\* daily kept the newest entry, its week holds another entry that weekly
\* left alone, and weekly kept an entry of an older week instead
C8_Witness ==
    /\ Chosen
    /\ NonNegative(args)
    /\ Len(dirs) >= 3
    /\ 1 \in KeptUnder("daily")
    /\ PeriodOf("weekly", dirs[2].ts) = PeriodOf("weekly", dirs[1].ts)
    /\ dirs[2].name \notin kept
    /\ KeptUnder("weekly") # {}

(***************************************************************************)
(* C9: with a non-empty catalog and non-negative keep-counts of which one  *)
(* is positive, the first entry of dirs is kept, and no entry is more      *)
(* recent than it.                                                         *)
(***************************************************************************)
C9_NewestKept ==
    (Chosen /\ NonNegative(args) /\ AnyPositive(args) /\ Len(dirs) > 0) =>
        /\ dirs[1].name \in kept
        /\ \A j \in 1..Len(dirs) : ~DateLess(dirs[1].ts, dirs[j].ts)

\* the newest entry is kept by a rule other than daily while others are pruned
C9_Witness ==
    /\ Chosen
    /\ NonNegative(args)
    /\ args.daily = 0
    /\ args.weekly = 0
    /\ Len(dirs) >= 3
    /\ dirs[1].name \in kept
    /\ DateLess(dirs[2].ts, dirs[1].ts)
    /\ Cardinality(kept) < Len(dirs)

(***************************************************************************)
(* C10: choose_kept on the kept entries alone keeps all of them, with the  *)
(* same reasons; after a completed run that is not a dry run the base      *)
(* directory holds exactly the kept entries, so a second run with the same *)
(* arguments prunes nothing.                                               *)
(***************************************************************************)
Restrict(items, names) == SelectSeq(items, LAMBDA it : it.name \in names)

C10_RerunKeepsAll ==
    /\ (pc = "done" /\ NonNegative(args)) =>
          /\ ChooseKept(Restrict(dirs, kept), args).kept = kept
          /\ ChooseKept(Restrict(dirs, kept), args).because = because
    /\ (pc = "done" /\ ~args.dry_run /\ NonNegative(args)) =>
          LET again == ScanDirectories(fs)
          IN  /\ NamesOf(again) = kept
              /\ ChooseKept(again, args).kept = NamesOf(again)

\* a first run that removed something and kept entries under two rules
C10_Witness ==
    /\ pc = "done"
    /\ ~args.dry_run
    /\ NonNegative(args)
    /\ removed # {}
    /\ Cardinality({ because[n][1] : n \in kept }) >= 2

====
